---- MODULE Spec2Model ----
(***************************************************************************)
(* Model of the Postman O&M viewer: the state cells of App (App.tsx) and   *)
(* RequestEditor (RequestEditor.tsx), their event handlers and the         *)
(* asynchronous completions (FileReader onload, the mock-send timer, the   *)
(* Gemini fetch).                                                          *)
(*                                                                         *)
(* Encoding.  A JavaScript string is a sequence of one-character strings.  *)
(* A nullable value is None (<<>>) or Some(v) (<<v>>).  Indices kept in    *)
(* state are zero-based as in the code; TLA+ sequences are one-based.      *)
(* The program sees the content of a chosen file only in reader.onload, so  *)
(* readers counts the reads in progress and the content is an input of the *)
(* onload step.                                                            *)
(***************************************************************************)
EXTENDS Integers, Sequences, FiniteSets, TLC

VARIABLES collection, selectedItemId, searchQuery, isUploading, response,
          isSending, geminiResponse, isLoadingGemini, geminiError,
          activeTab, apiKey, readers, timers, fetches, writes, lastOp

vars == <<collection, selectedItemId, searchQuery, isUploading, response,
          isSending, geminiResponse, isLoadingGemini, geminiError,
          activeTab, apiKey, readers, timers, fetches, writes, lastOp>>

None == <<>>

Some(v) == <<v>>

Min(a, b) == IF a < b THEN a ELSE b

Max(a, b) == IF a > b THEN a ELSE b

\* ------------------------------------------------------------------ bounds
MaxItems == 2

MaxReaders == 1

MaxInFlight == 2

TickMs == 400

MaxWrites == 2

\* --------------------------------------------------------- program constants
\* setTimeout(..., 800)
Delay == 800

PlaceholderKey == "PLACEHOLDER_API_KEY"

ConfigMessage == "Please set your GEMINI_API_KEY in .env.local file"

AlertMessage == "Invalid Postman Collection JSON"

MalformedBodyError == "Malformed JSON in request body"

\* ------------------------------------------------------------------ strings
\* String.prototype.toLowerCase on the letters the model uses
LowerMap == ("G" :> "g") @@ ("E" :> "e") @@ ("T" :> "t") @@ ("S" :> "s")

toLowerCase(s) ==
  [i \in 1..Len(s) |-> IF s[i] \in DOMAIN LowerMap THEN LowerMap[s[i]] ELSE s[i]]

\* String.prototype.includes: q occurs in s at some offset
includes(s, q) ==
  \E k \in 0..(Len(s) - Len(q)) : SubSeq(s, k + 1, k + Len(q)) = q

\* decimal digits of a natural number, as the template literal prints it
DigitChars == <<"0", "1", "2", "3", "4", "5", "6", "7", "8", "9">>

RECURSIVE NatToString(_)
NatToString(n) ==
  IF n < 10 THEN <<DigitChars[n + 1]>>
  ELSE NatToString(n \div 10) \o <<DigitChars[(n % 10) + 1]>>

\* faulty variant of MakeId
MakeIdMissingIndex(index, name) == <<"-">> \o name

\* `${index}-${item.name}`
MakeId(index, name) == NatToString(index) \o <<"-">> \o name

\* --------------------------------------------------------------- JSON.parse
\* Request bodies are token sequences over
\*   "{"  "}"  ":"  "x" (the quoted key "x")  "1" (a number)  "n" (a bare word)
\* and JSON.parse is a recursive-descent parser of
\*   value ::= "1" | "{" "}" | "{" "x" ":" value "}"
\* that rejects trailing input.
JNum == [t |-> "num", v |-> 1]

JEmptyObj == [t |-> "obj", has |-> FALSE]

JObj(v) == [t |-> "obj", has |-> TRUE, x |-> v]

Tok(raw, p) == IF p \in 1..Len(raw) THEN raw[p] ELSE "eof"

RECURSIVE ParseValue(_, _)
ParseValue(raw, p) ==
  IF Tok(raw, p) = "1" THEN [ok |-> TRUE, val |-> JNum, next |-> p + 1]
  ELSE IF Tok(raw, p) = "{" /\ Tok(raw, p + 1) = "}"
    THEN [ok |-> TRUE, val |-> JEmptyObj, next |-> p + 2]
  ELSE IF Tok(raw, p) = "{" /\ Tok(raw, p + 1) = "x" /\ Tok(raw, p + 2) = ":"
    THEN LET inner == ParseValue(raw, p + 3) IN
         IF inner.ok /\ Tok(raw, inner.next) = "}"
           THEN [ok |-> TRUE, val |-> JObj(inner.val), next |-> inner.next + 1]
           ELSE [ok |-> FALSE]
  ELSE [ok |-> FALSE]

JSONParse(raw) ==
  LET r == ParseValue(raw, 1) IN
  IF r.ok /\ r.next = Len(raw) + 1 THEN [ok |-> TRUE, val |-> r.val]
  ELSE [ok |-> FALSE]

\* ------------------------------------------------------------------- inputs
\* PostmanItem: name, request.body.raw, optional _id
PostmanItem(name, raw, id) == [name |-> name, raw |-> raw, _id |-> id]

BodyObj == <<"{", "x", ":", "1", "}">>

BodyWord == <<"n">>

BodyTruncated == <<"{", "x", ":", "1">>

ItemGet == PostmanItem(<<"G", "e", "t">>, BodyObj, None)

ItemSet == PostmanItem(<<"S", "E", "T">>, BodyWord, Some(<<"o", "l", "d">>))

ItemGetAgain == PostmanItem(<<"G", "e", "t">>, BodyTruncated, None)

ItemPool == {ItemGet, ItemSet, ItemGetAgain}

SeqsUpTo(S, n) == UNION {[1..k -> S] : k \in 0..n}

\* file contents: not JSON at all, or a JSON document with optional info and
\* optional item list
Malformed == [json |-> FALSE]

Doc(info, item) == [json |-> TRUE, info |-> info, item |-> item]

InfoA == Some(<<"A">>)

DocNoItem == Doc(InfoA, None)

DocNoInfo == Doc(None, Some(<<ItemGet>>))

Docs ==
  {Malformed, DocNoItem, DocNoInfo}
    \cup {Doc(InfoA, Some(s)) : s \in SeqsUpTo(ItemPool, MaxItems)}

SmallDocs ==
  {Malformed, DocNoItem, DocNoInfo,
   Doc(InfoA, Some(<<>>)),
   Doc(InfoA, Some(<<ItemGet, ItemSet>>)),
   Doc(InfoA, Some(<<ItemSet, ItemGetAgain>>))}

Queries == {<<>>, <<"g", "e", "t">>, <<"G", "E">>, <<"T">>, <<"x">>}

SmallQueries == {<<>>, <<"s">>}

Tabs == {"params", "auth", "headers", "body"}

Keys == {None, Some(""), Some(PlaceholderKey), Some("key")}

FetchOutcomes == {"network", "http", "shape", "notext", "ok"}

\* ----------------------------------------------------------- derived values
Items == IF collection = None THEN <<>> ELSE collection[1].item

\* const selectedItem = selectedItemId !== null && collection
\*                        ? collection.item[selectedItemId] : null
SelectedItemOf(coll, sel) ==
  IF sel # None /\ coll # None
    THEN IF sel[1] + 1 \in DOMAIN coll[1].item
           THEN Some(coll[1].item[sel[1] + 1]) ELSE None
    ELSE None

selectedItem == SelectedItemOf(collection, selectedItemId)

\* {collection.info.name} dereferences info during render
RenderThrowsOf(coll) == coll # None /\ coll[1].info = None

RenderThrows == RenderThrowsOf(collection)

\* <RequestEditor .../> is rendered iff selectedItem is truthy
MountedOf(coll, sel) == SelectedItemOf(coll, sel) # None /\ ~RenderThrowsOf(coll)

Mounted == MountedOf(collection, selectedItemId)

\* faulty variant of Matches
MatchesCaseSensitive(item, query) == includes(item.name, query)

\* collection?.item.filter(item =>
\*   item.name.toLowerCase().includes(searchQuery.toLowerCase())) || []
Matches(item, query) == includes(toLowerCase(item.name), toLowerCase(query))

\* one-based positions of the items the filter keeps, in order
FilteredPositions(items, query) ==
  SelectSeq([i \in 1..Len(items) |-> i], LAMBDA i : Matches(items[i], query))

filteredItemsOf(items, query) ==
  LET fp == FilteredPositions(items, query) IN
  [k \in 1..Len(fp) |-> items[fp[k]]]

filteredItems == filteredItemsOf(Items, searchQuery)

\* Array.prototype.findIndex(i => i.name === name), zero-based, -1 if none
findIndex(items, name) ==
  IF \E i \in 1..Len(items) : items[i].name = name
    THEN (CHOOSE i \in 1..Len(items) :
            /\ items[i].name = name
            /\ \A j \in 1..(i - 1) : items[j].name # name) - 1
    ELSE -1

\* const originalIndex = collection.item.findIndex(i => i.name === item.name)
originalIndex(items, query, idx) ==
  findIndex(items, filteredItemsOf(items, query)[idx].name)

\* faulty variant of TabAfter
TabAfterAlwaysBody(wasMounted, isMounted, tab) == "body"

\* useState('body') of a freshly mounted RequestEditor; kept while mounted
TabAfter(wasMounted, isMounted, tab) ==
  IF wasMounted /\ isMounted THEN tab ELSE "body"

\* faulty variant of SendDisabled
SendDisabledNever == FALSE

\* disabled={isSending}
SendDisabled == isSending

\* disabled={isLoadingGemini}
AnalyzeDisabled == isLoadingGemini

\* faulty variant of KeyUnset
KeyUnsetOnlyAbsent(k) == k = None \/ k = Some("")

\* !apiKey || apiKey === "PLACEHOLDER_API_KEY"
KeyUnset(k) == k = None \/ k = Some("") \/ k = Some(PlaceholderKey)

\* lastOp: the handler or callback that ran last, with the row a click was on
\* and the content an onload was handed
Op(name, arg) == [op |-> name, arg |-> arg, doc |-> None]

OnloadOp(name, arg, doc) == [op |-> name, arg |-> arg, doc |-> Some(doc)]

\* --------------------------------------------------------------------- Init
Init ==
  /\ collection = None
  /\ selectedItemId = None
  /\ searchQuery = <<>>
  /\ isUploading = FALSE
  /\ response = None
  /\ isSending = FALSE
  /\ geminiResponse = None
  /\ isLoadingGemini = FALSE
  /\ geminiError = None
  /\ activeTab = "body"
  /\ apiKey \in Keys
  /\ readers = 0
  /\ timers = <<>>
  /\ fetches = 0
  /\ writes = 0
  /\ lastOp = Op("init", 0)

\* ------------------------------------------------------------------ actions
\* handleFileUpload with no file chosen: if (!file) return
FileUploadNoFile ==
  /\ ~RenderThrows
  /\ lastOp' = Op("noFile", 0)
  /\ UNCHANGED <<collection, selectedItemId, searchQuery, isUploading,
                 response, isSending, geminiResponse, isLoadingGemini,
                 geminiError, activeTab, apiKey, readers, timers, fetches,
                 writes>>

\* handleFileUpload: setIsUploading(true); reader.readAsText(file)
FileUpload ==
  /\ ~RenderThrows
  /\ readers < MaxReaders
  /\ isUploading' = TRUE
  /\ readers' = readers + 1
  /\ lastOp' = Op("upload", 0)
  /\ UNCHANGED <<collection, selectedItemId, searchQuery, response, isSending,
                 geminiResponse, isLoadingGemini, geminiError, activeTab,
                 apiKey, timers, fetches, writes>>

\* faulty variant of ImportParses
ImportParsesStrict(doc) == doc.json /\ doc.item # None /\ doc.info # None

\* JSON.parse(...) and json.item.map(...) both succeed
ImportParses(doc) == doc.json /\ doc.item # None

\* json.item.map((item, index) => ({...item, _id: `${index}-${item.name}`}))
EnrichKeepExistingId(items) ==
  [i \in 1..Len(items) |->
     IF items[i]._id # None THEN items[i]
     ELSE [items[i] EXCEPT !._id = Some(MakeId(i - 1, items[i].name))]]

Enrich(items) ==
  [i \in 1..Len(items) |->
     [items[i] EXCEPT !._id = Some(MakeId(i - 1, items[i].name))]]

\* reader.onload, try branch completed
OnloadSuccess(doc) ==
  LET coll == Some([info |-> doc.info, item |-> Enrich(doc.item[1])])
  IN
  /\ readers > 0
  /\ ImportParses(doc)
  /\ collection' = coll
  /\ selectedItemId' = Some(0)
  /\ isUploading' = FALSE
  /\ activeTab' = TabAfter(Mounted, MountedOf(coll, Some(0)), activeTab)
  /\ readers' = readers - 1
  /\ lastOp' = OnloadOp("importOk", 0, doc)
  /\ UNCHANGED <<searchQuery, response, isSending, geminiResponse,
                 isLoadingGemini, geminiError, apiKey, timers, fetches,
                 writes>>

\* faulty variant of OnloadFailure
OnloadFailureResets(doc) ==
  /\ readers > 0
  /\ ~ImportParses(doc)
  /\ isUploading' = FALSE
  /\ collection' = None
  /\ selectedItemId' = None
  /\ activeTab' = "body"
  /\ readers' = readers - 1
  /\ lastOp' = OnloadOp("importAlert", IF doc.json THEN 1 ELSE 0, doc)
  /\ UNCHANGED <<searchQuery, response, isSending, geminiResponse,
                 isLoadingGemini, geminiError, apiKey, timers, fetches,
                 writes>>

\* reader.onload, catch branch: alert('Invalid Postman Collection JSON');
\* lastOp.arg records what was caught: 0 the SyntaxError of JSON.parse,
\* 1 the TypeError of json.item.map
OnloadFailure(doc) ==
  /\ readers > 0
  /\ ~ImportParses(doc)
  /\ isUploading' = FALSE
  /\ readers' = readers - 1
  /\ lastOp' = OnloadOp("importAlert", IF doc.json THEN 1 ELSE 0, doc)
  /\ UNCHANGED <<collection, selectedItemId, searchQuery, response, isSending,
                 geminiResponse, isLoadingGemini, geminiError, activeTab,
                 apiKey, timers, fetches, writes>>

\* reader.onload with e.target.result = doc
ReaderOnload(doc) == OnloadSuccess(doc) \/ OnloadFailure(doc)

\* onChange={(e) => setSearchQuery(e.target.value)}
SetSearchQuery(q) ==
  /\ ~RenderThrows
  /\ q # searchQuery
  /\ searchQuery' = q
  /\ lastOp' = Op("query", 0)
  /\ UNCHANGED <<collection, selectedItemId, isUploading, response, isSending,
                 geminiResponse, isLoadingGemini, geminiError, activeTab,
                 apiKey, readers, timers, fetches, writes>>

\* onClick={() => setSelectedItemId(originalIndex)} on the idx-th row of the
\* filtered list; lastOp.arg records the row's own zero-based position in
\* collection.item
ClickItem(idx) ==
  /\ collection # None
  /\ ~RenderThrows
  /\ idx \in 1..Len(filteredItems)
  /\ LET sel == Some(originalIndex(Items, searchQuery, idx)) IN
     /\ selectedItemId' = sel
     /\ activeTab' = TabAfter(Mounted, MountedOf(collection, sel), activeTab)
  /\ lastOp' = Op("click", FilteredPositions(Items, searchQuery)[idx] - 1)
  /\ UNCHANGED <<collection, searchQuery, isUploading, response, isSending,
                 geminiResponse, isLoadingGemini, geminiError, apiKey,
                 readers, timers, fetches, writes>>

\* onClick={() => setActiveTab(tab.toLowerCase())}
ClickTab(tab) ==
  /\ Mounted
  /\ tab # activeTab
  /\ activeTab' = tab
  /\ lastOp' = Op("tab", 0)
  /\ UNCHANGED <<collection, selectedItemId, searchQuery, isUploading,
                 response, isSending, geminiResponse, isLoadingGemini,
                 geminiError, apiKey, readers, timers, fetches, writes>>

\* handleSendRequest(selectedItem): setIsSending(true); setResponse(null);
\* start = Date.now(); setTimeout(..., 800)
ClickSend ==
  /\ Mounted
  /\ ~SendDisabled
  /\ Len(timers) < MaxInFlight
  /\ isSending' = TRUE
  /\ response' = None
  /\ timers' = Append(timers, [item |-> selectedItem[1], remaining |-> Delay,
                               elapsed |-> 0])
  /\ writes' = 0
  /\ lastOp' = Op("send", 0)
  /\ UNCHANGED <<collection, selectedItemId, searchQuery, isUploading,
                 geminiResponse, isLoadingGemini, geminiError, activeTab,
                 apiKey, readers, fetches>>

\* passage of TickMs of wall-clock time
Tick ==
  /\ \E i \in DOMAIN timers : timers[i].remaining > 0
  /\ timers' = [i \in DOMAIN timers |->
                  [timers[i] EXCEPT
                     !.remaining = Max(0, @ - TickMs),
                     !.elapsed = @ + TickMs]]
  /\ lastOp' = Op("tick", 0)
  /\ UNCHANGED <<collection, selectedItemId, searchQuery, isUploading,
                 response, isSending, geminiResponse, isLoadingGemini,
                 geminiError, activeTab, apiKey, readers, fetches, writes>>

\* faulty variant of MockResponse
MockResponseAlways200(item, elapsed) ==
  [status |-> 200,
   data |-> [success |-> TRUE, msg |-> "Operation successful",
             received_data |-> JNum],
   time |-> elapsed]

\* the value handed to setResponse by the timer callback
MockResponse(item, elapsed) ==
  LET bodyParsed == JSONParse(item.raw) IN
  IF bodyParsed.ok
    THEN [status |-> 200,
          data |-> [success |-> TRUE, msg |-> "Operation successful",
                    received_data |-> bodyParsed.val],
          time |-> elapsed]
    ELSE [status |-> 400,
          data |-> [error |-> MalformedBodyError],
          time |-> elapsed]

\* faulty variant of SentItem
SentItemCurrent(timer) ==
  IF selectedItem # None THEN selectedItem[1] ELSE timer.item

\* the `item` parameter the timer callback closes over: the request that was
\* passed to handleSendRequest, not the selection at expiry
SentItem(timer) == timer.item

\* the setTimeout callback: setResponse(...); setIsSending(false)
SendComplete ==
  /\ timers # <<>>
  /\ Head(timers).remaining = 0
  /\ response' = Some(MockResponse(SentItem(Head(timers)), Head(timers).elapsed))
  /\ isSending' = FALSE
  /\ timers' = Tail(timers)
  /\ writes' = Min(MaxWrites, writes + 1)
  /\ lastOp' = Op("sendDone", 0)
  /\ UNCHANGED <<collection, selectedItemId, searchQuery, isUploading,
                 geminiResponse, isLoadingGemini, geminiError, activeTab,
                 apiKey, readers, fetches>>

\* analyzeRequestWithGemini -> callGeminiAPI with an unset key: the throw, the
\* catch and the finally all run before the first await
AnalyzeConfigError ==
  /\ Mounted
  /\ ~AnalyzeDisabled
  /\ KeyUnset(apiKey)
  /\ geminiResponse' = None
  /\ geminiError' = Some(ConfigMessage)
  /\ isLoadingGemini' = FALSE
  /\ lastOp' = Op("analyzeConfig", 0)
  /\ UNCHANGED <<collection, selectedItemId, searchQuery, isUploading,
                 response, isSending, activeTab, apiKey, readers, timers,
                 fetches, writes>>

\* callGeminiAPI up to `await fetch(...)`; fetches counts the calls in flight
AnalyzeStart ==
  /\ Mounted
  /\ ~AnalyzeDisabled
  /\ ~KeyUnset(apiKey)
  /\ fetches < MaxInFlight
  /\ isLoadingGemini' = TRUE
  /\ geminiResponse' = None
  /\ geminiError' = None
  /\ fetches' = fetches + 1
  /\ lastOp' = Op("analyze", 0)
  /\ UNCHANGED <<collection, selectedItemId, searchQuery, isUploading,
                 response, isSending, activeTab, apiKey, readers, timers,
                 writes>>

ClickAnalyze == AnalyzeConfigError \/ AnalyzeStart

\* what the rest of callGeminiAPI does with the outcome of the HTTP call
\*   network : fetch rejects
\*   http    : !response.ok
\*   shape   : data.candidates[0].content.parts[0] cannot be dereferenced
\*   notext  : parts[0] exists and has no text field
\*   ok      : the text is there
FetchText(outcome) ==
  IF outcome = "ok" THEN Some("insights") ELSE None

FetchError(outcome) ==
  CASE outcome = "network" -> Some("Failed to fetch")
    [] outcome = "http" -> Some("Gemini API error: 500 Internal Server Error")
    [] outcome = "shape" -> Some("Cannot read properties of undefined")
    [] OTHER -> None

FetchComplete(outcome) ==
  /\ fetches > 0
  /\ fetches' = fetches - 1
  /\ IF FetchError(outcome) = None
       THEN /\ geminiResponse' = FetchText(outcome)
            /\ UNCHANGED geminiError
       ELSE /\ geminiError' = FetchError(outcome)
            /\ UNCHANGED geminiResponse
  /\ isLoadingGemini' = FALSE
  /\ lastOp' = Op("fetchDone", 0)
  /\ UNCHANGED <<collection, selectedItemId, searchQuery, isUploading,
                 response, isSending, activeTab, apiKey, readers, timers,
                 writes>>

\* ----------------------------------------------------------- specifications
\* the whole application over a small set of files and queries
Next ==
  \/ FileUploadNoFile
  \/ FileUpload
  \/ \E doc \in SmallDocs : ReaderOnload(doc)
  \/ \E q \in SmallQueries : SetSearchQuery(q)
  \/ \E idx \in 1..MaxItems : ClickItem(idx)
  \/ \E tab \in Tabs : ClickTab(tab)
  \/ ClickSend
  \/ Tick
  \/ SendComplete
  \/ ClickAnalyze
  \/ \E outcome \in FetchOutcomes : FetchComplete(outcome)

Spec == Init /\ [][Next]_vars

\* the mock-send pipeline with the imports and selections that can overlap a
\* send; the timer is serviced by the event loop: time passes and a due
\* callback runs
LiveNext ==
  \/ FileUpload
  \/ \E doc \in SmallDocs : ReaderOnload(doc)
  \/ \E idx \in 1..MaxItems : ClickItem(idx)
  \/ ClickSend
  \/ Tick
  \/ SendComplete

LiveSpec ==
  Init /\ [][LiveNext]_vars /\ WF_vars(Tick) /\ WF_vars(SendComplete)

\* import and sidebar only, over every document built from ItemPool
SidebarNext ==
  \/ FileUpload
  \/ \E doc \in Docs : ReaderOnload(doc)
  \/ \E q \in Queries : SetSearchQuery(q)
  \/ \E idx \in 1..MaxItems : ClickItem(idx)

SidebarSpec == Init /\ [][SidebarNext]_vars

\* ------------------------------------------------------------------- claims
\* the last step was reader.onload
Onloaded == lastOp.op \in {"importOk", "importAlert"}

\* C1: a successful import of a document with N items stores N items in source
\* order, the i-th (zero-based) carrying the id "<i>-<name_i>" whatever id it
\* had in the file.
C1_ImportAssignsIds ==
  (Onloaded /\ lastOp.doc[1].json /\ lastOp.doc[1].item # None) =>
    LET src == lastOp.doc[1].item[1] IN
    /\ lastOp.op = "importOk"
    /\ collection # None
    /\ Len(collection[1].item) = Len(src)
    /\ \A k \in 1..Len(src) :
         LET it == collection[1].item[k] IN
         /\ it.name = src[k].name
         /\ it.raw = src[k].raw
         /\ it._id # None
         /\ Len(it._id[1]) = 2 + Len(src[k].name)
         /\ it._id[1][1] = DigitChars[k]
         /\ it._id[1][2] = "-"
         /\ SubSeq(it._id[1], 3, Len(it._id[1])) = src[k].name

C1_Witness ==
  /\ lastOp.op = "importOk"
  /\ Len(lastOp.doc[1].item[1]) = 2
  /\ lastOp.doc[1].item[1][2]._id = Some(<<"o", "l", "d">>)
  /\ Len(Items) = 2
  /\ Items[2].name = <<"S", "E", "T">>
  /\ Items[2]._id = Some(<<"1", "-", "S", "E", "T">>)

\* C2: an import of content that is not JSON ends in the alert and leaves the
\* collection, the selected index, the mock response and the analysis text and
\* error as they were.
C2_MalformedLeavesState ==
  [][(lastOp'.doc # None /\ ~lastOp'.doc[1].json) =>
         /\ lastOp'.op = "importAlert"
         /\ collection' = collection
         /\ selectedItemId' = selectedItemId
         /\ response' = response
         /\ geminiResponse' = geminiResponse
         /\ geminiError' = geminiError]_vars

C2_Witness ==
  /\ lastOp = OnloadOp("importAlert", 0, Malformed)
  /\ collection # None
  /\ selectedItemId = Some(1)
  /\ response # None
  /\ geminiError # None

\* C3: the filtered list is exactly the items whose name contains the query
\* when letter case is ignored, in collection order; the empty query gives the
\* whole list.
SameLetter(a, b) ==
  \/ a = b
  \/ <<a, b>> \in {<<"G", "g">>, <<"E", "e">>, <<"T", "t">>, <<"S", "s">>}
  \/ <<b, a>> \in {<<"G", "g">>, <<"E", "e">>, <<"T", "t">>, <<"S", "s">>}

ContainsIgnoringCase(name, q) ==
  \E k \in 0..(Len(name) - Len(q)) :
    \A j \in 1..Len(q) : SameLetter(name[k + j], q[j])

C3_FilterExact ==
  LET M == {i \in 1..Len(Items) : ContainsIgnoringCase(Items[i].name, searchQuery)}
      Kth(k) == CHOOSE i \in M : Cardinality({j \in M : j < i}) = k - 1
  IN
  /\ Len(filteredItems) = Cardinality(M)
  /\ \A k \in 1..Len(filteredItems) : filteredItems[k] = Items[Kth(k)]
  /\ (searchQuery = <<>> => filteredItems = Items)

C3_Witness ==
  /\ searchQuery = <<"G", "E">>
  /\ Len(Items) = 2
  /\ Len(filteredItems) = 1
  /\ filteredItems[1] = Items[2]

\* C4: a click on a row of the filtered list selects that row's own position
\* in the unfiltered collection.
C4_ClickSelectsOwnPosition ==
  lastOp.op = "click" => selectedItemId = Some(lastOp.arg)

\* C5 as stated: whenever the request bound to the editor changes, the active
\* tab is Body afterwards.
C5_TabResetsOnChange ==
  [][(Mounted' /\ selectedItem' # selectedItem) => activeTab' = "body"]_vars

\* C5 amended: the tab is Body when the editor is newly mounted and, while the
\* editor stays mounted, only a tab click changes it; a change of the bound
\* request keeps the active tab.
C5_TabKeptWhileMounted ==
  [][/\ (~Mounted /\ Mounted') => activeTab' = "body"
     /\ (Mounted /\ Mounted' /\ lastOp'.op # "tab") => activeTab' = activeTab]_vars

C5_Witness ==
  /\ lastOp = Op("click", 1)
  /\ selectedItemId = Some(1)
  /\ activeTab = "headers"

\* C6: every mock send resolves exactly once, not before the delay: status 200
\* with the parsed body when the raw body is JSON, status 400 with an error
\* field when it is not, and the sending flag is cleared.
IsJSONText(raw) ==
  raw \in {<<"1">>, <<"{", "}">>, <<"{", "x", ":", "1", "}">>,
           <<"{", "x", ":", "{", "}", "}">>}

C6_SendResolvesOnce ==
  /\ [](writes <= 1)
  /\ [][(timers # <<>> /\ timers' = Tail(timers)) =>
          LET raw == Head(timers).item.raw IN
          /\ response' # None
          /\ response'[1].time >= Delay
          /\ IsJSONText(raw) =>
               /\ response'[1].status = 200
               /\ raw = <<"{", "x", ":", "1", "}">> =>
                    response'[1].data.received_data =
                      [t |-> "obj", has |-> TRUE, x |-> [t |-> "num", v |-> 1]]
          /\ ~IsJSONText(raw) =>
               /\ response'[1].status = 400
               /\ "error" \in DOMAIN response'[1].data
          /\ ~isSending'
          /\ writes' = 1]_vars
  /\ (isSending ~> (~isSending /\ writes = 1 /\ response # None))

C6_Witness ==
  /\ lastOp.op = "sendDone"
  /\ writes = 1
  /\ ~isSending
  /\ response # None
  /\ response[1].status = 200
  /\ response[1].data.received_data = JObj(JNum)

\* C7: at most one mock send and at most one analysis call are in flight, and
\* while one is in flight its busy flag is set.
C7_OneInFlight ==
  /\ Len(timers) <= 1
  /\ fetches <= 1
  /\ (Len(timers) = 1 => isSending)
  /\ (fetches = 1 => isLoadingGemini)

C7_Witness == Len(timers) = 1 /\ fetches = 1 /\ isSending /\ isLoadingGemini

\* C8: right after a successful import the mock response, the analysis text
\* and the analysis error are empty.
C8_ImportClearsResults ==
  lastOp.op = "importOk" =>
    (response = None /\ geminiResponse = None /\ geminiError = None)

\* C9: with the credential absent or equal to the placeholder, an analyze click
\* starts no network call and ends in the same step with the configuration
\* message as error, no text and the loading flag false.
CredentialUnset == apiKey = None \/ apiKey = Some("PLACEHOLDER_API_KEY")

C9_ConfigErrorImmediate ==
  [][(lastOp'.op \in {"analyze", "analyzeConfig"} /\ CredentialUnset) =>
       /\ fetches' = fetches
       /\ geminiError' = Some(ConfigMessage)
       /\ geminiResponse' = None
       /\ ~isLoadingGemini']_vars

C9_Witness ==
  /\ lastOp.op = "analyzeConfig"
  /\ apiKey = Some("PLACEHOLDER_API_KEY")
  /\ geminiError = Some(ConfigMessage)
  /\ geminiResponse = None
  /\ ~isLoadingGemini
  /\ fetches = 0

C11_StaleSendStillWritten ==
  /\ [][lastOp'.op = "send" =>
          /\ selectedItem # None
          /\ timers' = Append(timers, [item |-> selectedItem[1],
                                       remaining |-> Delay, elapsed |-> 0])]_vars
  /\ [][lastOp'.op \in {"click", "importOk", "importAlert"} =>
          /\ timers' = timers
          /\ isSending' = isSending
          /\ response' = response]_vars
  /\ [][lastOp'.op = "sendDone" =>
          /\ timers # <<>>
          /\ timers' = Tail(timers)
          /\ response' # None
          /\ response'[1].status =
               IF IsJSONText(Head(timers).item.raw) THEN 200 ELSE 400]_vars

\* the displayed response was produced from a request other than the selected
\* one: status 200 is on display while the selected request's body is not JSON
C11_Witness ==
  /\ lastOp.op = "sendDone"
  /\ response # None
  /\ response[1].status = 200
  /\ selectedItem # None
  /\ ~IsJSONText(selectedItem[1].raw)

\* C12: an analyze invocation starts by clearing the analysis text and the
\* analysis error; once it has ended, by a configuration error or by the
\* completion of the fetch with any outcome, the loading flag is clear and
\* exactly one of analysis text and analysis error is set; and the two are
\* never set together.
C12_AnalyzeEndsWithOneResult ==
  /\ ~(geminiResponse # None /\ geminiError # None)
  /\ lastOp.op = "analyze" =>
       /\ isLoadingGemini
       /\ geminiResponse = None
       /\ geminiError = None
  /\ lastOp.op \in {"analyzeConfig", "fetchDone"} =>
       /\ ~isLoadingGemini
       /\ (geminiResponse # None) # (geminiError # None)

====
